---------------------------- MODULE Spec2Model ----------------------------
(***************************************************************************)
(* Model of the portable incremental backup engine                         *)
(* (src/src/engine/backup_engine.py): the content-addressed store, the     *)
(* snapshots with their files/ tree and manifest, the backup run with its  *)
(* filter and per-file retry loop, the shadow-copy context, and restore /  *)
(* verify; and of the window that starts them on worker threads            *)
(* (src/src/gui/backup_gui.py).                                            *)
(*                                                                         *)
(* Paths are tuples of components (pathlib.Path); file contents are byte   *)
(* sequences; a hash is a sequence of hex digits.                          *)
(***************************************************************************)
EXTENDS Integers, Sequences, FiniteSets, TLC

(***************************************************************************)
(* Bounds of the model.                                                    *)
(***************************************************************************)
\* number of backup runs explored
MaxRuns == 2
\* max_retries is drawn from 0 .. MaxRetries
MaxRetries == 2
\* number of times the environment rewrites a source file
MaxEdits == 1
\* number of exceptions the environment makes file operations raise
MaxFaults == 2
\* number of blob files the environment deletes (specification SpecTamper)
MaxDeletes == 1
\* the wall clock (seconds) at Init, and how many seconds may pass
FirstSecond == 9
MaxTicks == 1
\* the window: folders in the source list, worker threads running at once,
\* and snapshots a repository folder comes to hold
\* entries of the manifests verify is given (specification SpecVerify)
MaxEntries == 2
\* max_retries of the runs that show the back-off at its cap (specification
\* SpecRetry)
LongRetries == 8
MaxSources == 1
MaxThreads == 2
MaxSnapshots == 1

(***************************************************************************)
(* State.                                                                  *)
(***************************************************************************)
VARIABLES
    src,           \* the source trees: file path -> content
    clock,         \* the wall clock, in seconds
    store,         \* repo/.store: blob path <<h[:2], h>> -> content
    snaps,         \* repo/snapshots: id -> [files: path -> content, manifest]
    srcs,          \* the configuration the runs are made with: the source roots,
    filter,        \*   [patterns, mode]
    max_retries,   \*   max_retries
    use_vss,       \*   and use_vss (on Windows)
    ctx,           \* the shadow-copy context of the run
    pc,            \* where the engine is: "idle" or a place inside backup()
    timestamp,     \* backup(): the snapshot identifier of the run
    started,       \* the clock when the run started
    r,             \* index in srcs of the root being walked
    todo,          \* files of the current root still to visit
    attempt,       \* the retry loop's counter
    h,             \* the hash computed for the current file
    manifest,      \* manifest["entries"], in memory
    emitted,       \* the log events (and sleeps) of the last step
    result,        \* what the last operation returned, with its arguments
    target,        \* the target directory of the last restore
    runs,          \* history: backup runs started
    edits,         \* history: source files rewritten
    atStart,       \* history: the values of edits, faults and clock when each run started
    origin,        \* history: the source file of each entry of manifest
    failed,        \* history: files of this run given up after the last attempt
    skipped,       \* history: files of this run rejected by the filter
    tries,         \* history: attempts begun on the current file
    faults,        \* history: exceptions raised by file operations so far
    deleted,       \* history: the blob files deleted by the environment
    app,           \* BackupRestoreApp: the widgets its handlers read and write
    threads,       \* the worker threads the handlers started, still running
    disk,          \* the repositories the window works on: folder -> snapshots
    repo_dir,      \* the repository: the directories made in it and its log files
    walk           \* os.walk of a root that holds the repository (SpecNested)

envVars == <<src, clock>>
repoVars == <<store, snaps>>
configVars == <<srcs, filter, max_retries, use_vss>>
runVars == <<timestamp, started, r, todo, attempt, h, manifest>>
outVars == <<result, target>>
guiVars == <<app, threads, disk>>
histVars == <<runs, edits, atStart, origin, failed, skipped, tries, faults, deleted>>
vars == <<src, clock, store, snaps, srcs, filter, max_retries, use_vss, ctx, pc, timestamp, started,
          r, todo, attempt, h, manifest, emitted, result, target,
          runs, edits, atStart, origin, failed, skipped, tries, faults, deleted,
          app, threads, disk, repo_dir, walk>>

(***************************************************************************)
(* Generic helpers.                                                        *)
(***************************************************************************)
Last(s) == s[Len(s)]

\* s[:n] of Python
Take(s, n) == SubSeq(s, 1, IF n < Len(s) THEN n ELSE Len(s))

IsPrefix(p, s) == Len(p) <= Len(s) /\ SubSeq(s, 1, Len(p)) = p

\* the proper prefixes of a byte sequence: what a copy that broke off part-way
\* leaves in the destination file
ProperPrefixes(c) == { SubSeq(c, 1, k) : k \in 0 .. (Len(c) - 1) }

Range(f) == { f[x] : x \in DOMAIN f }

\* a function (a directory tree: path -> content) with one file written
Put(f, k, v) == [x \in (DOMAIN f) \cup {k} |-> IF x = k THEN v ELSE f[x]]

\* a function with one file removed
Drop(f, k) == [x \in (DOMAIN f) \ {k} |-> f[x]]

EmptyTree == [x \in {} |-> <<>>]

(***************************************************************************)
(* The characters of the names used, for str(path) and fnmatch.            *)
(***************************************************************************)
Chars(name) ==
    CASE name = "data"  -> <<"d", "a", "t", "a">>
      [] name = "mnt"   -> <<"m", "n", "t">>
      [] name = "docs"  -> <<"d", "o", "c", "s">>
      [] name = "a.txt" -> <<"a", ".", "t", "x", "t">>
      [] name = "a.tmp" -> <<"a", ".", "t", "m", "p">>

RECURSIVE StrFrom(_, _)
StrFrom(p, k) == IF k > Len(p) THEN <<>> ELSE <<"/">> \o Chars(p[k]) \o StrFrom(p, k + 1)

\* str(path) of an absolute POSIX path: "/" before every component
Str(p) == StrFrom(p, 1)

(***************************************************************************)
(* sha256_file: the digest of the whole content, read chunk by chunk.      *)
(* SHA-256 is modelled by a small fold that is collision-free on the       *)
(* contents of the model; the digest is written as three hex digits.       *)
(***************************************************************************)
RECURSIVE Update(_, _)
Update(acc, bytes) ==
    IF bytes = <<>> THEN acc
    ELSE Update((acc * 33 + Head(bytes) + 1) % 4096, Tail(bytes))

HexDigest(acc) == << acc \div 256, (acc \div 16) % 16, acc % 16 >>

sha256_file(content) == HexDigest(Update(7, content))

(***************************************************************************)
(* fnmatch.fnmatch on character sequences: "*" matches any run of          *)
(* characters (also "/"), "?" one character, anything else itself.         *)
(***************************************************************************)
RECURSIVE fnmatch(_, _)
fnmatch(s, pat) ==
    IF pat = <<>> THEN s = <<>>
    ELSE IF Head(pat) = "*"
         THEN fnmatch(s, Tail(pat)) \/ (s # <<>> /\ fnmatch(Tail(s), pat))
         ELSE /\ s # <<>>
              /\ (Head(pat) = "?" \/ Head(pat) = Head(s))
              /\ fnmatch(Tail(s), Tail(pat))

RECURSIVE LStrip(_)
LStrip(s) == IF s # <<>> /\ Head(s) = " " THEN LStrip(Tail(s)) ELSE s

RECURSIVE RStrip(_)
RStrip(s) == IF s # <<>> /\ Last(s) = " " THEN RStrip(SubSeq(s, 1, Len(s) - 1)) ELSE s

\* str.strip()
Strip(s) == RStrip(LStrip(s))

LowerChar(c) ==
    CASE c = "I" -> "i"
      [] c = "E" -> "e"
      [] c = "L" -> "l"
      [] c = "A" -> "a"
      [] c = "T" -> "t"
      [] c = "S" -> "s"
      [] OTHER   -> c

\* str.lower()
Lower(s) == [k \in 1 .. Len(s) |-> LowerChar(s[k])]


(***************************************************************************)
(* match_patterns / should_process.                                        *)
(***************************************************************************)
\* the pattern after (pat or "").strip()
StripPattern(pat) == Strip(pat)

\* a match on the base name alone
match_name_only(path, patterns) ==
    \E k \in 1 .. Len(patterns) :
        StripPattern(patterns[k]) # <<>> /\ fnmatch(Chars(Last(path)), StripPattern(patterns[k]))

match_patterns(path, patterns) ==
    LET name == Chars(Last(path))
        full == Str(path)
    IN  \E k \in 1 .. Len(patterns) :
            LET pat == StripPattern(patterns[k])
            IN  /\ pat # <<>>
                /\ (fnmatch(name, pat) \/ fnmatch(full, pat))

INCLUDE == <<"i", "n", "c", "l", "u", "d", "e">>
EXCLUDE == <<"e", "x", "c", "l", "u", "d", "e">>

\* (mode or "exclude").strip().lower()
NormMode(mode) == Lower(Strip(IF mode = <<>> THEN EXCLUDE ELSE mode))

should_process(path, patterns, mode) ==
    LET matched == match_patterns(path, patterns)
    IN  IF NormMode(mode) = INCLUDE THEN matched ELSE ~matched

(***************************************************************************)
(* The inputs of the model: source trees, contents, filter specifications. *)
(***************************************************************************)
\* two source roots with the same base name, /data/docs and /mnt/docs
DataDocs == <<"data", "docs">>
MntDocs  == <<"mnt", "docs">>
\* a configured root that is not there when the run scans, /old/docs
OldDocs == <<"old", "docs">>

\* the files of the source trees, in the order os.walk lists them
AllFiles == << <<"data", "docs", "a.txt">>, <<"data", "docs", "a.tmp">>,
               <<"mnt", "docs", "a.txt">> >>

SourceFiles == Range(AllFiles)

\* what a source file may hold
SrcContents == { <<1>>, <<2>> }

\* the lists of source roots a run may be given
SourceLists == { <<>>, <<DataDocs>>, <<MntDocs>>, <<DataDocs, MntDocs>>, <<OldDocs, MntDocs>> }

StarTmp == <<"*", ".", "t", "m", "p">>
\* matches /data/docs/a.txt by its full path only; written with a trailing blank
DataTxt == <<"/", "d", "a", "t", "a", "/", "*", ".", "t", "x", "t", " ">>

FilterSpecs ==
    { [patterns |-> <<StarTmp>>, mode |-> EXCLUDE],
      [patterns |-> <<StarTmp>>, mode |-> INCLUDE],
      [patterns |-> <<>>, mode |-> <<>>],
      [patterns |-> << <<" ">>, DataTxt >>, mode |-> <<" ", "I", "n", "c", "l", "u", "d", "e">>] }

RetryChoices == 0 .. MaxRetries

(***************************************************************************)
(* Paths inside the repository.                                            *)
(***************************************************************************)
\* a store with one directory of blobs per backup run
BlobPathPerRun(hh) == << <<runs>>, hh >>

\* store / h[:2] / h
BlobPath(hh) == << Take(hh, 2), hh >>

\* s.relative_to(mapped_root)
relative_to(s, root) == SubSeq(s, Len(root) + 1, Len(s))

\* files_dir / root.name / rel, the key of f"{root.name}/{rel.as_posix()}"
LogicalPath(root, s) == << Last(root) >> \o relative_to(s, root)

\* the files os.walk(root) yields
Walk(root) == SelectSeq(AllFiles, LAMBDA f : IsPrefix(root, f))

Digit(n) == <<"0", "1", "2", "3", "4", "5", "6", "7", "8", "9">>[n + 1]

\* the seconds written without the leading zero
TimestampUnpadded(t) ==
    IF t % 100 < 10 THEN << Digit(t % 10) >>
    ELSE << Digit((t \div 10) % 10), Digit(t % 10) >>

\* strftime: fixed-width, zero-padded (the seconds of the clock, two digits)
Timestamp(t) == << Digit((t \div 10) % 10), Digit(t % 10) >>


(***************************************************************************)
(* The initial state.                                                      *)
(***************************************************************************)
\* manifest.json of a snapshot: the entries written, or no file yet
NoManifest == [written |-> FALSE, entries |-> <<>>]
Written(entries) == [written |-> TRUE, entries |-> entries]
NoHash == <<>>

\* the Dummy context: use_vss is off, or the platform is not Windows
NoContext == [state |-> "off", why |-> "none", tmpdir |-> FALSE, shadow |-> FALSE, view |-> <<>>]

\* VSSContext.__init__ (on Windows): enabled, with its scratch directory
NewContext == [state |-> "new", why |-> "none", tmpdir |-> TRUE, shadow |-> FALSE, view |-> <<>>]

\* the folders the user can pick as a repository
Repos == {"repoA", "repoB"}

\* BackupRestoreApp.__init__ and _build_ui: empty line edits, lists and
\* trees, every button enabled
NewApp ==
    [ sources_list |-> <<>>, repo_edit |-> "", restore_repo_edit |-> "",
      restore_target_edit |-> "", backup_controls |-> TRUE,
      snapshot_tree |-> 0, snapshot_selected |-> 0,
      file_tree |-> FALSE, file_selected |-> FALSE ]

\* the repository path before the first backup: nothing is there
NoRepo == [dirs |-> {}, logs |-> {}]

\* repo, repo/snapshots, repo/logs, snapshot/files and repo/.store are made
\* (mkdir parents=True, exist_ok=True) and the log of the run is opened
MakeRepo(rp, ts) ==
    [dirs |-> rp.dirs \cup {"repo", "snapshots", "logs", "files", ".store"},
     logs |-> rp.logs \cup {ts}]

\* the files the walk meets at a nesting level of the repository: the copy
\* of the source file, a blob file, the log file
NoFiles == [file |-> FALSE, blob |-> FALSE, log |-> FALSE]

\* no walk of a root that holds the repository is going on
NoWalk ==
    [top |-> TRUE, at |-> "level", listed |-> FALSE, cur |-> NoFiles, nxt |-> NoFiles,
     files |-> <<>>, dirs |-> <<>>, later |-> {}]

InitFor(vss, retries) ==
    /\ repo_dir = NoRepo
    /\ walk = NoWalk
    /\ app = NewApp
    /\ threads = <<>>
    /\ disk = [repo \in Repos |-> 0]
    /\ use_vss = vss
    /\ ctx = NoContext
    /\ src = [f \in SourceFiles |-> IF f[1] = "data" THEN <<2>> ELSE <<1>>]
    /\ clock = FirstSecond
    /\ store = EmptyTree
    /\ snaps = EmptyTree
    /\ srcs \in SourceLists
    /\ filter \in FilterSpecs
    /\ max_retries \in retries
    /\ pc = "idle"
    /\ timestamp = <<>>
    /\ started = FirstSecond
    /\ r = 0
    /\ todo = <<>>
    /\ attempt = 0
    /\ h = NoHash
    /\ manifest = <<>>
    /\ emitted = <<>>
    /\ result = [op |-> "none"]
    /\ target = EmptyTree
    /\ runs = 0
    /\ edits = 0
    /\ atStart = <<>>
    /\ origin = <<>>
    /\ failed = {}
    /\ skipped = {}
    /\ tries = 0
    /\ faults = 0
    /\ deleted = {}

InitWith(vss) == InitFor(vss, RetryChoices)

\* use_vss off, or a platform other than Windows
Init == InitWith(FALSE)

(***************************************************************************)
(* backup(): start, walk, filter.                                          *)
(***************************************************************************)
\* the file being visited and its root
CurFile == Head(todo)
CurRoot == srcs[r]

\* snapshot / files is created with the snapshot directory (mkdir exist_ok):
\* a directory that is already there is kept as it is
MakeSnapshot(sn, ts) ==
    IF ts \in DOMAIN sn THEN sn
    ELSE Put(sn, ts, [files |-> EmptyTree, manifest |-> NoManifest])

\* a check of the source list that comes after the directories are made
BackupNoSourcesLate ==
    /\ pc = "idle"
    /\ srcs = <<>>
    /\ repo_dir' = MakeRepo(repo_dir, Timestamp(clock))
    /\ snaps' = MakeSnapshot(snaps, Timestamp(clock))
    /\ result' = [op |-> "backup", status |-> "raised",
                  error |-> "En az bir kaynak klasor gerekli."]
    /\ target' = EmptyTree
    /\ pc' = "returned"
    /\ UNCHANGED <<envVars, store, configVars, walk, guiVars, ctx, runVars, emitted, histVars>>

\* if not srcs: raise RuntimeError, before anything is made in the repository
BackupNoSources ==
    /\ pc = "idle"
    /\ srcs = <<>>
    /\ result' = [op |-> "backup", status |-> "raised",
                  error |-> "En az bir kaynak klasor gerekli."]
    /\ target' = EmptyTree
    /\ pc' = "returned"
    /\ UNCHANGED <<envVars, repoVars, repo_dir, configVars, walk, guiVars, ctx, runVars, emitted, histVars>>

BackupStart ==
    /\ pc = "idle"
    /\ runs < MaxRuns
    /\ srcs # <<>>
    /\ timestamp' = Timestamp(clock)
    /\ started' = clock
    /\ snaps' = MakeSnapshot(snaps, Timestamp(clock))
    /\ repo_dir' = MakeRepo(repo_dir, Timestamp(clock))
    /\ manifest' = <<>>
    /\ r' = 1
    /\ todo' = <<>>
    /\ attempt' = 0
    /\ h' = NoHash
    /\ ctx' = IF use_vss THEN NewContext ELSE NoContext
    /\ pc' = IF use_vss THEN "enter" ELSE "root"
    /\ emitted' = << [event |-> "start", timestamp |-> Timestamp(clock)] >>
    /\ runs' = runs + 1
    /\ atStart' = Append(atStart, [edits |-> edits, faults |-> faults, clock |-> clock])
    /\ origin' = <<>>
    /\ failed' = {}
    /\ skipped' = {}
    /\ tries' = 0
    /\ UNCHANGED <<envVars, store, configVars, walk, guiVars, outVars, edits, faults, deleted>>

(***************************************************************************)
(* VSSContext: entering the shadow-copy context.  Under Windows the roots  *)
(* are C:\data\docs and C:\old\docs, and the share \\mnt\docs, which has   *)
(* no drive letter.                                                        *)
(***************************************************************************)
\* p.drive
Drive(p) == IF p[1] = "mnt" THEN "" ELSE "C:"

\* self.volumes = {p.drive.upper() for p in sources if p.drive}
Volumes(roots) == { Drive(roots[i]) : i \in 1 .. Len(roots) } \ {""}

\* how the steps of __enter__ may end: IsUserAnAdmin is false or raises; the
\* script file cannot be written; diskshadow cannot be launched; diskshadow
\* exits non-zero; diskshadow exits with 0
EntryOutcomes == {"no_admin", "script_write", "launch", "exit_code", "ok"}

\* VSSContext.__enter__: without admin rights or without a drive letter the
\* context is disabled; write_text and subprocess.run are not guarded, so
\* what they raise leaves backup() (no __exit__ for a context that was not
\* entered); a non-zero exit code disables the context, whatever diskshadow
\* created before it failed; otherwise the context is active and the scan
\* reads the shadow copy, the sources as they are now
VssEnter(outcome) ==
    /\ pc = "enter"
    /\ IF outcome = "no_admin"
       THEN /\ ctx' = [ctx EXCEPT !.state = "disabled", !.why = "no_admin"]
            /\ pc' = "root"
       ELSE IF Volumes(srcs) = {}
       THEN /\ ctx' = [ctx EXCEPT !.state = "disabled", !.why = "no_volume"]
            /\ pc' = "root"
       ELSE IF outcome \in {"script_write", "launch"}
       THEN /\ ctx' = [ctx EXCEPT !.state = "broken", !.why = outcome]
            /\ pc' = "idle"
       ELSE IF outcome = "exit_code"
       THEN /\ \E left \in BOOLEAN :
                   ctx' = [ctx EXCEPT !.state = "disabled", !.why = "exit_code", !.shadow = left]
            /\ pc' = "root"
       ELSE /\ ctx' = [ctx EXCEPT !.state = "active", !.shadow = TRUE, !.view = src]
            /\ pc' = "root"
    /\ emitted' = <<>>
    /\ UNCHANGED <<envVars, repoVars, configVars, walk, repo_dir, guiVars, timestamp, started, r, todo, attempt, h,
                   manifest, outVars, histVars>>

\* what the scan reads for a file: ctx.map_path leads to the shadow copy
\* when the context is active, to the live file otherwise
Source(f) == IF ctx.state = "active" THEN ctx.view[f] ELSE src[f]

\* a scan that takes every configured root to be there
ExistsAlways(root) == TRUE

\* mapped_root.exists()
Exists(root) == root \in {DataDocs, MntDocs}

\* if not mapped_root.exists(): log source_missing; continue
SourceMissing ==
    /\ pc = "root"
    /\ r <= Len(srcs)
    /\ ~Exists(CurRoot)
    /\ emitted' = << [event |-> "source_missing", path |-> CurRoot] >>
    /\ r' = r + 1
    /\ UNCHANGED <<envVars, repoVars, configVars, walk, repo_dir, guiVars, ctx, pc, timestamp, started, todo, attempt, h,
                   manifest, outVars, histVars>>

\* for root in srcs: os.walk(mapped_root)
EnterRoot ==
    /\ pc = "root"
    /\ r <= Len(srcs)
    /\ Exists(CurRoot)
    /\ todo' = Walk(CurRoot)
    /\ pc' = "file"
    /\ emitted' = <<>>
    /\ UNCHANGED <<envVars, repoVars, configVars, walk, repo_dir, guiVars, ctx, timestamp, started, r, attempt, h,
                   manifest, outVars, histVars>>

\* the walk of the current root is over
RootDone ==
    /\ pc = "file"
    /\ todo = <<>>
    /\ r' = r + 1
    /\ pc' = "root"
    /\ emitted' = <<>>
    /\ UNCHANGED <<envVars, repoVars, configVars, walk, repo_dir, guiVars, ctx, timestamp, started, todo, attempt, h,
                   manifest, outVars, histVars>>

\* a skip that still records the file in the manifest
SkipButRecord ==
    /\ pc = "file"
    /\ todo # <<>>
    /\ ~should_process(CurFile, filter.patterns, filter.mode)
    /\ emitted' = << [event |-> "skip_by_filter", path |-> CurFile] >>
    /\ skipped' = skipped \cup {CurFile}
    /\ manifest' = Append(manifest, [path |-> LogicalPath(CurRoot, CurFile), hash |-> NoHash])
    /\ origin' = Append(origin, CurFile)
    /\ todo' = Tail(todo)
    /\ UNCHANGED <<envVars, repoVars, configVars, walk, repo_dir, guiVars, ctx, pc, timestamp, started, r, attempt, h,
                   outVars, runs, edits, atStart, failed, tries, faults, deleted>>

SkipByFilter ==
    /\ pc = "file"
    /\ todo # <<>>
    /\ ~should_process(CurFile, filter.patterns, filter.mode)
    /\ emitted' = << [event |-> "skip_by_filter", path |-> CurFile] >>
    /\ skipped' = skipped \cup {CurFile}
    /\ todo' = Tail(todo)
    /\ UNCHANGED <<envVars, repoVars, configVars, walk, repo_dir, guiVars, ctx, pc, timestamp, started, r, attempt, h,
                   manifest, outVars, runs, edits, atStart, origin, failed, tries,
                   faults, deleted>>

\* attempt = 0; while True:
BeginFile ==
    /\ pc = "file"
    /\ todo # <<>>
    /\ should_process(CurFile, filter.patterns, filter.mode)
    /\ attempt' = 0
    /\ tries' = 0
    /\ pc' = "hash"
    /\ emitted' = <<>>
    /\ UNCHANGED <<envVars, repoVars, configVars, walk, repo_dir, guiVars, ctx, timestamp, started, r, todo, h,
                   manifest, outVars, runs, edits, atStart, origin, failed, skipped,
                   faults, deleted>>

(***************************************************************************)
(* backup(): the retry loop around hash, store and materialize.            *)
(***************************************************************************)
\* a loop that allows one attempt more
ExhaustedLate(a, mr) == a > mr

\* if attempt >= int(max_retries): break
Exhausted(a, mr) == a >= mr

\* a back-off that grows without the cap
BackoffUncapped(a) == 5 * a

\* time.sleep(min(5 * attempt, 30))
Backoff(a) == IF 5 * a < 30 THEN 5 * a ELSE 30

\* the clock after a sleep: at least one second after the run started
AfterSleep == IF clock > started THEN clock ELSE started + 1

\* how many exceptions the environment raises: enough for a file to be given
\* up where max_retries is long
FaultBudget == IF max_retries > MaxRetries THEN max_retries ELSE MaxFaults

\* an except clause that lets the exception of the last attempt end the run
RaiseAbort ==
    /\ faults < FaultBudget
    /\ faults' = faults + 1
    /\ attempt' = attempt + 1
    /\ h' = NoHash
    /\ IF Exhausted(attempt + 1, max_retries)
       THEN /\ emitted' = << [event |-> "error", path |-> CurFile, attempt |-> attempt + 1] >>
            /\ failed' = failed \cup {CurFile}
            /\ todo' = <<>>
            /\ pc' = "idle"
            /\ clock' = clock
       ELSE /\ emitted' = << [event |-> "error", path |-> CurFile, attempt |-> attempt + 1],
                             [event |-> "sleep", seconds |-> Backoff(attempt + 1)] >>
            /\ pc' = "hash"
            /\ clock' = AfterSleep
            /\ UNCHANGED <<failed, todo>>
    /\ UNCHANGED <<src, configVars, walk, repo_dir, guiVars, ctx, timestamp, started, r, manifest, outVars,
                   runs, edits, atStart, origin, skipped, deleted>>

\* except Exception: count the attempt, log it, give the file up or sleep and
\* retry.  Leaves src, store, snaps, manifest, origin, tries to the step that raised.
Raise ==
    /\ faults < FaultBudget
    /\ faults' = faults + 1
    /\ attempt' = attempt + 1
    /\ h' = NoHash
    /\ IF Exhausted(attempt + 1, max_retries)
       THEN /\ emitted' = << [event |-> "error", path |-> CurFile, attempt |-> attempt + 1] >>
            /\ failed' = failed \cup {CurFile}
            /\ todo' = Tail(todo)
            /\ pc' = "file"
            /\ clock' = clock
       ELSE /\ emitted' = << [event |-> "error", path |-> CurFile, attempt |-> attempt + 1],
                             [event |-> "sleep", seconds |-> Backoff(attempt + 1)] >>
            /\ pc' = "hash"
            /\ clock' = AfterSleep
            /\ UNCHANGED <<failed, todo>>
    /\ UNCHANGED <<src, configVars, walk, repo_dir, guiVars, ctx, timestamp, started, r, manifest, outVars,
                   runs, edits, atStart, origin, skipped, deleted>>

HashOk ==
    /\ pc = "hash"
    /\ h' = sha256_file(Source(CurFile))
    /\ tries' = tries + 1
    /\ pc' = "store"
    /\ emitted' = <<>>
    /\ UNCHANGED <<envVars, repoVars, configVars, walk, repo_dir, guiVars, ctx, timestamp, started, r, todo, attempt,
                   manifest, outVars, runs, edits, atStart, origin, failed, skipped,
                   faults, deleted>>

\* sha256_file raises (the file cannot be opened or read)
HashRaise ==
    /\ pc = "hash"
    /\ tries' = tries + 1
    /\ Raise
    /\ UNCHANGED repoVars

\* a store that never finds a blob
BlobNeverExists(hh) == FALSE

\* blob.exists()
BlobExists(hh) == BlobPath(hh) \in DOMAIN store

StoreReuse ==
    /\ pc = "store"
    /\ BlobExists(h)
    /\ emitted' = << [event |-> "blob_reuse", path |-> CurFile, hash |-> h] >>
    /\ pc' = "link"
    /\ UNCHANGED <<envVars, repoVars, configVars, walk, repo_dir, guiVars, ctx, timestamp, started, r, todo, attempt, h,
                   manifest, outVars, histVars>>

\* shutil.copy2(s, blob): the bytes the source holds now
StoreCopy ==
    /\ pc = "store"
    /\ ~BlobExists(h)
    /\ store' = Put(store, BlobPath(h), Source(CurFile))
    /\ emitted' = << [event |-> "blob_copy", path |-> CurFile, hash |-> h] >>
    /\ pc' = "link"
    /\ UNCHANGED <<envVars, snaps, configVars, walk, repo_dir, guiVars, ctx, timestamp, started, r, todo, attempt, h,
                   manifest, outVars, histVars>>

\* what a copy of content c onto path p that raised may leave behind: nothing
\* written, a part of c, or all of c (the failure came after the bytes)
BrokenCopies(tree, p, c) ==
    {tree} \cup { Put(tree, p, part) : part \in ProperPrefixes(c) \cup {c} }

\* the store step raises: mkdir, the copy or the log write fails
StoreRaise ==
    /\ pc = "store"
    /\ IF BlobExists(h)
       THEN store' = store
       ELSE store' \in BrokenCopies(store, BlobPath(h), Source(CurFile))
    /\ Raise
    /\ UNCHANGED <<snaps, tries>>

\* dst = files_dir / root.name / rel
Dst == LogicalPath(CurRoot, CurFile)

\* the append left out for a file whose entry an earlier snapshot's manifest
\* already holds
AppendIfChanged(entries, e) ==
    IF \E id \in DOMAIN snaps :
           id # timestamp /\ e \in Range(snaps[id].manifest.entries)
    THEN entries
    ELSE Append(entries, e)

\* manifest["entries"].append({"path": ..., "hash": h, ...}): every processed
\* file gets its entry, whatever the previous snapshot holds
AppendEntry(entries, e) == Append(entries, e)

\* ensure_hardlink_or_copy(blob, dst) returns: dst holds the blob's bytes (a
\* hard link or a copy); then the entry is appended
MaterializeOk ==
    /\ pc = "link"
    /\ snaps' = [snaps EXCEPT ![timestamp].files = Put(@, Dst, store[BlobPath(h)])]
    /\ manifest' = AppendEntry(manifest, [path |-> Dst, hash |-> h])
    /\ origin' = Append(origin, CurFile)
    /\ todo' = Tail(todo)
    /\ h' = NoHash
    /\ pc' = "file"
    /\ emitted' = <<>>
    /\ UNCHANGED <<envVars, store, configVars, walk, repo_dir, guiVars, ctx, timestamp, started, r, attempt, outVars,
                   runs, edits, atStart, failed, skipped, tries, faults, deleted>>

\* ensure_hardlink_or_copy raises: mkdir fails (dst untouched), or dst was
\* unlinked and both the link and the fallback copy fail
MaterializeRaise ==
    /\ pc = "link"
    /\ \E files \in {Drop(snaps[timestamp].files, Dst)}
                    \cup BrokenCopies(snaps[timestamp].files, Dst, store[BlobPath(h)]) :
           snaps' = [snaps EXCEPT ![timestamp].files = files]
    /\ Raise
    /\ UNCHANGED <<store, tries>>

\* a scan error that leaves backup() without going through __exit__
ScanRaiseNoExit ==
    /\ pc \in {"root", "file"}
    /\ faults < MaxFaults
    /\ faults' = faults + 1
    /\ pc' = "idle"
    /\ emitted' = <<>>
    /\ UNCHANGED <<envVars, repoVars, configVars, walk, repo_dir, guiVars, ctx, timestamp, started, r, todo, attempt, h,
                   manifest, outVars, runs, edits, atStart, origin, failed, skipped, tries,
                   deleted>>

\* an exception leaves the scan: a log write or a directory listing raises
\* outside the per-file try; the with block is left by the exception
ScanRaise ==
    /\ pc \in {"root", "file"}
    /\ faults < MaxFaults
    /\ faults' = faults + 1
    /\ pc' = "unwind"
    /\ emitted' = <<>>
    /\ UNCHANGED <<envVars, repoVars, configVars, walk, repo_dir, guiVars, ctx, timestamp, started, r, todo, attempt, h,
                   manifest, outVars, runs, edits, atStart, origin, failed, skipped, tries,
                   deleted>>

\* the with block is being left: the scan is over, or an exception left it
Leaving == (pc = "root" /\ r > Len(srcs)) \/ pc = "unwind"

\* where backup() goes after __exit__ returned False: on to the manifest
\* write, or out with the exception of the scan
AfterExit == IF pc = "unwind" THEN "idle" ELSE "write"

\* how the steps of __exit__ may end: cleanup.dsh cannot be written;
\* diskshadow cannot be launched; diskshadow fails (its exit code is not
\* looked at); diskshadow succeeds
ExitOutcomes == {"script_write", "launch", "exit_code", "ok"}

\* VSSContext.__exit__ of an active context: the cleanup script (UNEXPOSE of
\* every mapped drive, DELETE SHADOWS ALL) is written and run, then the
\* scratch directory is removed; write_text and subprocess.run are not
\* guarded, so what they raise leaves backup()
VssExit(outcome) ==
    /\ Leaving
    /\ ctx.state = "active"
    /\ IF outcome \in {"script_write", "launch"}
       THEN /\ ctx' = [ctx EXCEPT !.state = "exit_raised", !.why = outcome]
            /\ pc' = "idle"
       ELSE /\ ctx' = [ctx EXCEPT !.state = "exited", !.tmpdir = FALSE,
                                  !.shadow = (outcome = "exit_code")]
            /\ pc' = AfterExit
    /\ emitted' = <<>>
    /\ UNCHANGED <<envVars, repoVars, configVars, walk, repo_dir, guiVars, timestamp, started, r, todo, attempt, h,
                   manifest, outVars, histVars>>

\* the with block is left with the Dummy context or a disabled one: __exit__
\* does nothing
ExitContext ==
    /\ Leaving
    /\ ctx.state # "active"
    /\ pc' = AfterExit
    /\ emitted' = <<>>
    /\ UNCHANGED <<envVars, repoVars, configVars, walk, repo_dir, guiVars, ctx, timestamp, started, r, todo, attempt, h,
                   manifest, outVars, histVars>>

\* json.dump(manifest) into snapshot / manifest.json, opened with "w"
WriteManifest ==
    /\ pc = "write"
    /\ snaps' = [snaps EXCEPT ![timestamp].manifest = Written(manifest)]
    /\ emitted' = << [event |-> "done", snapshot |-> timestamp, entry_count |-> Len(manifest)] >>
    /\ pc' = "idle"
    /\ UNCHANGED <<envVars, store, configVars, walk, repo_dir, guiVars, ctx, timestamp, started, r, todo, attempt, h,
                   manifest, outVars, histVars>>

(***************************************************************************)
(* Snapshot helpers.                                                       *)
(***************************************************************************)
LATEST == <<"l", "a", "t", "e", "s", "t">>

DigitValue(c) == CHOOSE n \in 0 .. 9 : Digit(n) = c

\* the order of str on snapshot names (digit strings)
RECURSIVE StrLess(_, _)
StrLess(a, b) ==
    IF a = <<>> THEN b # <<>>
    ELSE IF b = <<>> THEN FALSE
    ELSE IF Head(a) = Head(b) THEN StrLess(Tail(a), Tail(b))
    ELSE DigitValue(Head(a)) < DigitValue(Head(b))

RECURSIVE SortNames(_)
SortNames(S) ==
    IF S = {} THEN <<>>
    ELSE LET m == CHOOSE x \in S : \A y \in S \ {x} : StrLess(x, y)
         IN  <<m>> \o SortNames(S \ {m})

\* sorted names of the directories under repo/snapshots
list_snapshots(sn) == SortNames(DOMAIN sn)

Raised(msg) == [ok |-> FALSE, error |-> msg]

\* the snapshot directory, or the RuntimeError raised
resolve_snapshot(sn, snapshot_id) ==
    IF Lower(snapshot_id) = LATEST /\ list_snapshots(sn) = <<>>
    THEN Raised("Snapshot bulunamadi.")
    ELSE LET id == IF Lower(snapshot_id) = LATEST THEN Last(list_snapshots(sn))
                   ELSE snapshot_id
         IN  IF id \in DOMAIN sn THEN [ok |-> TRUE, snap |-> id]
             ELSE Raised("Snapshot bulunamadi: id")

\* every snapshot directory of the model holds its files directory
snapshot_files_root(sn, snapshot_id) == resolve_snapshot(sn, snapshot_id)

\* the snapshot identifiers an operation may be given; "00" names no snapshot
SnapshotArgs == {LATEST, Timestamp(0)} \cup DOMAIN snaps

\* the relative paths restore_single_file may be given; docs is a directory
RelArgs == { <<"docs", "a.txt">>, <<"docs", "a.tmp">>, <<"docs">> }

(***************************************************************************)
(* Restore / Verify.  Every restore is given a fresh, empty target.  The    *)
(* operation ends at pc = "returned", where the caller holds what it       *)
(* returned or raised and what it wrote to the target; Return hands the    *)
(* control back.                                                           *)
(***************************************************************************)
\* a restore that moves the files out of the snapshot
RestoreFullMoving(snapshot_id) ==
    /\ pc = "idle"
    /\ LET res == snapshot_files_root(snaps, snapshot_id)
       IN  IF res.ok
           THEN /\ target' = snaps[res.snap].files
                /\ snaps' = [snaps EXCEPT ![res.snap].files = EmptyTree]
                /\ result' = [op |-> "restore", status |-> "ok", snapshot |-> res.snap,
                              mkdir |-> TRUE]
           ELSE /\ target' = EmptyTree
                /\ snaps' = snaps
                /\ result' = [op |-> "restore", status |-> "raised", error |-> res.error,
                              mkdir |-> FALSE]
    /\ pc' = "returned"
    /\ UNCHANGED <<envVars, store, configVars, walk, repo_dir, guiVars, ctx, runVars, emitted, histVars>>

\* restore_full_snapshot returns: every file under files/ is copied to the
\* same relative path of the target
RestoreFull(snapshot_id) ==
    /\ pc = "idle"
    /\ LET res == snapshot_files_root(snaps, snapshot_id)
       IN  IF res.ok
           THEN /\ target' = snaps[res.snap].files
                /\ result' = [op |-> "restore", status |-> "ok", snapshot |-> res.snap,
                              mkdir |-> TRUE]
           ELSE /\ target' = EmptyTree
                /\ result' = [op |-> "restore", status |-> "raised", error |-> res.error,
                              mkdir |-> FALSE]
    /\ pc' = "returned"
    /\ UNCHANGED <<envVars, repoVars, configVars, walk, repo_dir, guiVars, ctx, runVars, emitted, histVars>>

\* a single-file restore that makes the target directory before it looks
\* for the file
RestoreSingleMkdirFirst(snapshot_id, rel_path) ==
    /\ pc = "idle"
    /\ LET res == snapshot_files_root(snaps, snapshot_id)
       IN  IF res.ok /\ rel_path \in DOMAIN snaps[res.snap].files
           THEN /\ target' = Put(EmptyTree, << Last(rel_path) >>, snaps[res.snap].files[rel_path])
                /\ result' = [op |-> "restore_file", status |-> "ok", snapshot |-> res.snap,
                              rel |-> rel_path, dst |-> << Last(rel_path) >>, mkdir |-> TRUE]
           ELSE /\ target' = EmptyTree
                /\ result' = [op |-> "restore_file", status |-> "raised",
                              error |-> IF res.ok THEN "Dosya bulunamadi" ELSE res.error,
                              mkdir |-> res.ok]
    /\ pc' = "returned"
    /\ UNCHANGED <<envVars, repoVars, configVars, walk, repo_dir, guiVars, ctx, runVars, emitted, histVars>>

\* restore_single_file: src must exist and be a regular file; it is copied to
\* target_dir / Path(rel_path).name.  mkdir: whether target_dir.mkdir was
\* reached
RestoreSingle(snapshot_id, rel_path) ==
    /\ pc = "idle"
    /\ LET res == snapshot_files_root(snaps, snapshot_id)
       IN  IF res.ok /\ rel_path \in DOMAIN snaps[res.snap].files
           THEN /\ target' = Put(EmptyTree, << Last(rel_path) >>, snaps[res.snap].files[rel_path])
                /\ result' = [op |-> "restore_file", status |-> "ok", snapshot |-> res.snap,
                              rel |-> rel_path, dst |-> << Last(rel_path) >>, mkdir |-> TRUE]
           ELSE /\ target' = EmptyTree
                /\ result' = [op |-> "restore_file", status |-> "raised",
                              error |-> IF res.ok THEN "Dosya bulunamadi" ELSE res.error,
                              mkdir |-> FALSE]
    /\ pc' = "returned"
    /\ UNCHANGED <<envVars, repoVars, configVars, walk, repo_dir, guiVars, ctx, runVars, emitted, histVars>>

\* the counts of a verify that looks for the shard directory of a blob only
VerifyCountsByShard(entries, st) ==
    LET hashed == { k \in 1 .. Len(entries) : entries[k].hash # NoHash }
        shards == { b[1] : b \in DOMAIN st }
    IN  [ok      |-> Cardinality({ k \in hashed : Take(entries[k].hash, 2) \in shards }),
         missing |-> Cardinality({ k \in hashed : Take(entries[k].hash, 2) \notin shards })]

\* the counts verify prints for a manifest: entries whose blob exists, entries
\* whose blob does not; an entry without a hash is passed over
VerifyCounts(entries, st) ==
    LET hashed == { k \in 1 .. Len(entries) : entries[k].hash # NoHash }
    IN  [ok      |-> Cardinality({ k \in hashed : BlobPath(entries[k].hash) \in DOMAIN st }),
         missing |-> Cardinality({ k \in hashed : BlobPath(entries[k].hash) \notin DOMAIN st })]

\* a verify that reports every entry it did not count as ok under missing
VerifyResultCountingAll(snapshot_id) ==
    LET res == resolve_snapshot(snaps, snapshot_id)
    IN  IF res.ok /\ snaps[res.snap].manifest.written
        THEN [op |-> "verify", status |-> "ok", snapshot |-> res.snap,
              ok |-> VerifyCounts(snaps[res.snap].manifest.entries, store).ok,
              missing |-> Len(snaps[res.snap].manifest.entries)
                          - VerifyCounts(snaps[res.snap].manifest.entries, store).ok]
        ELSE [op |-> "verify", status |-> "raised",
              error |-> IF res.ok THEN "Manifest yok." ELSE res.error]

\* what verify prints, or that it raised (no such snapshot, no manifest.json)
VerifyResult(snapshot_id) ==
    LET res == resolve_snapshot(snaps, snapshot_id)
    IN  IF res.ok /\ snaps[res.snap].manifest.written
        THEN [op |-> "verify", status |-> "ok", snapshot |-> res.snap,
              ok |-> VerifyCounts(snaps[res.snap].manifest.entries, store).ok,
              missing |-> VerifyCounts(snaps[res.snap].manifest.entries, store).missing]
        ELSE [op |-> "verify", status |-> "raised",
              error |-> IF res.ok THEN "Manifest yok." ELSE res.error]

Verify(snapshot_id) ==
    /\ pc = "idle"
    /\ result' = VerifyResult(snapshot_id)
    /\ target' = EmptyTree
    /\ pc' = "returned"
    /\ UNCHANGED <<envVars, repoVars, configVars, walk, repo_dir, guiVars, ctx, runVars, emitted, histVars>>

\* verify called by another process while a run is between its scan and the
\* manifest write (all through the run the snapshot has the manifest.json it
\* had when the run started, if any)
VerifyDuringRun(snapshot_id) ==
    /\ pc = "write"
    /\ result' = VerifyResult(snapshot_id)
    /\ target' = EmptyTree
    /\ pc' = "observed"
    /\ UNCHANGED <<envVars, repoVars, configVars, walk, repo_dir, guiVars, ctx, runVars, emitted, histVars>>

\* the other process is done with the result; the run goes on
ReturnDuringRun ==
    /\ pc = "observed"
    /\ pc' = "write"
    /\ result' = [op |-> "none"]
    /\ target' = EmptyTree
    /\ UNCHANGED <<envVars, repoVars, configVars, walk, repo_dir, guiVars, ctx, runVars, emitted, histVars>>

\* the caller is done with the result
Return ==
    /\ pc = "returned"
    /\ pc' = "idle"
    /\ result' = [op |-> "none"]
    /\ target' = EmptyTree
    /\ UNCHANGED <<envVars, repoVars, configVars, walk, repo_dir, guiVars, ctx, runVars, emitted, histVars>>

(***************************************************************************)
(* The environment: source files are rewritten, time passes, and (under    *)
(* SpecTamper) a blob file is deleted from the store.                      *)
(***************************************************************************)
\* A source file gets new content: before a run, or between the hash and the
\* store step of the file being processed (a rewrite of another file during a
\* run leaves the repository as a rewrite before or after the run does).
ModifySource(f, c) ==
    /\ edits < MaxEdits
    /\ (pc = "idle" /\ runs < MaxRuns) \/ (pc = "store" /\ f = CurFile)
    /\ c # src[f]
    /\ src' = [src EXCEPT ![f] = c]
    /\ edits' = edits + 1
    /\ UNCHANGED <<clock, repoVars, configVars, walk, repo_dir, guiVars, ctx, pc, runVars, emitted, outVars,
                   runs, atStart, origin, failed, skipped, tries, faults, deleted>>

\* a second passes between runs (observable once the current second names a
\* snapshot)
Tick ==
    /\ pc = "idle"
    /\ runs < MaxRuns
    /\ clock < FirstSecond + MaxTicks
    /\ Timestamp(clock) \in DOMAIN snaps
    /\ clock' = clock + 1
    /\ UNCHANGED <<src, repoVars, configVars, walk, repo_dir, guiVars, ctx, pc, runVars, emitted, outVars, histVars>>

DeleteBlob(b) ==
    /\ pc = "idle"
    /\ Cardinality(deleted) < MaxDeletes
    /\ b \in DOMAIN store
    /\ store' = Drop(store, b)
    /\ deleted' = deleted \cup {b}
    /\ UNCHANGED <<envVars, snaps, configVars, walk, repo_dir, guiVars, ctx, pc, runVars, emitted, outVars,
                   runs, edits, atStart, origin, failed, skipped, tries, faults>>

(***************************************************************************)
(* Specifications.                                                         *)
(***************************************************************************)
Backup ==
    \/ BackupNoSources
    \/ BackupStart
    \/ SourceMissing
    \/ EnterRoot
    \/ RootDone
    \/ SkipByFilter
    \/ BeginFile
    \/ HashOk
    \/ HashRaise
    \/ StoreReuse
    \/ StoreCopy
    \/ StoreRaise
    \/ MaterializeOk
    \/ MaterializeRaise
    \/ ExitContext
    \/ WriteManifest

Restore ==
    \/ \E id \in SnapshotArgs : RestoreFull(id)
    \/ \E id \in SnapshotArgs, rel \in RelArgs : RestoreSingle(id, rel)
    \/ \E id \in SnapshotArgs : Verify(id)
    \/ Return
    \/ \E id \in SnapshotArgs : VerifyDuringRun(id)
    \/ ReturnDuringRun

Environment ==
    \/ \E f \in SourceFiles, c \in SrcContents : ModifySource(f, c)
    \/ Tick

Next == Backup \/ Restore \/ Environment

Spec == Init /\ [][Next]_vars

Tamper == \E b \in { BlobPath(sha256_file(c)) : c \in {<<>>} \cup SrcContents } : DeleteBlob(b)

\* once a blob file is gone, verifies follow
NextTamper ==
    \/ deleted = {} /\ Next
    \/ Tamper
    \/ deleted # {} /\ \E id \in SnapshotArgs : Verify(id)
    \/ deleted # {} /\ Return

\* the engine with an environment that also deletes blob files
SpecTamper == Init /\ [][NextTamper]_vars

\* backup() on Windows with use_vss on
InitVss == InitWith(TRUE)

NextVss ==
    \/ Backup
    \/ \E outcome \in EntryOutcomes : VssEnter(outcome)
    \/ ScanRaise
    \/ \E outcome \in ExitOutcomes : VssExit(outcome)
    \/ Environment

SpecVss == InitVss /\ [][NextVss]_vars

\* backup() of one root with a long max_retries
InitRetry ==
    /\ InitFor(FALSE, {LongRetries})
    /\ srcs = <<MntDocs>>
    /\ filter = [patterns |-> <<>>, mode |-> <<>>]

NextRetry ==
    \/ BackupStart
    \/ EnterRoot
    \/ RootDone
    \/ BeginFile
    \/ HashOk
    \/ HashRaise
    \/ StoreReuse
    \/ StoreCopy
    \/ StoreRaise
    \/ MaterializeOk
    \/ MaterializeRaise
    \/ ExitContext
    \/ WriteManifest
    \/ Tick

SpecRetry == InitRetry /\ [][NextRetry]_vars

(***************************************************************************)
(* verify() as a function of what it reads: the manifest.json of a         *)
(* snapshot, whoever wrote it, and the blob files of the store.            *)
(***************************************************************************)
\* e.get("hash"): a hash, or nothing
EntryChoices ==
    { [path |-> <<"docs", "a.txt">>, hash |-> hh] :
          hh \in {NoHash} \cup { sha256_file(c) : c \in SrcContents } }

ManifestChoices == UNION { [1 .. n -> EntryChoices] : n \in 0 .. MaxEntries }

\* the blob files of a store: for every content, no blob, the blob holding
\* the content, or a blob of that name holding something else
StoreChoices ==
    UNION { [B -> SrcContents] : B \in SUBSET { BlobPath(sha256_file(c)) : c \in SrcContents } }

\* a repository with one snapshot, before verify is called (verify does not
\* read snapshot / files)
InitVerify ==
    /\ repo_dir = MakeRepo(NoRepo, Timestamp(FirstSecond))
    /\ walk = NoWalk
    /\ app = NewApp
    /\ threads = <<>>
    /\ disk = [repo \in Repos |-> 0]
    /\ use_vss = FALSE
    /\ ctx = NoContext
    /\ src = [f \in SourceFiles |-> IF f[1] = "data" THEN <<2>> ELSE <<1>>]
    /\ clock = FirstSecond + 1
    /\ store \in StoreChoices
    /\ \E entries \in ManifestChoices :
           snaps = Put(EmptyTree, Timestamp(FirstSecond),
                       [files |-> [e \in { entries[k].path : k \in 1 .. Len(entries) } |-> <<>>],
                        manifest |-> Written(entries)])
    /\ srcs = <<MntDocs>>
    /\ filter = [patterns |-> <<>>, mode |-> <<>>]
    /\ max_retries = MaxRetries
    /\ pc = "idle"
    /\ timestamp = Timestamp(FirstSecond)
    /\ started = FirstSecond
    /\ r = 0
    /\ todo = <<>>
    /\ attempt = 0
    /\ h = NoHash
    /\ manifest = <<>>
    /\ emitted = <<>>
    /\ result = [op |-> "none"]
    /\ target = EmptyTree
    /\ runs = 0
    /\ edits = 0
    /\ atStart = <<>>
    /\ origin = <<>>
    /\ failed = {}
    /\ skipped = {}
    /\ tries = 0
    /\ faults = 0
    /\ deleted = {}

NextVerify == \E id \in SnapshotArgs : Verify(id)

SpecVerify == InitVerify /\ [][NextVerify]_vars

(***************************************************************************)
(* backup() of the root /data/docs with the repository inside it, at       *)
(* /data/docs/repo.  os.walk lists a directory when it comes to it, so it  *)
(* meets what the run has made by then.  With                              *)
(*     S = repo/snapshots/<timestamp>/files/docs                           *)
(* the file root/R is materialized at root/S/R: the files of the nesting   *)
(* level root/S^k get their copies in the level root/S^(k+1), which the    *)
(* walk reaches through root/S^k/repo/snapshots.  The state keeps the      *)
(* level the walk is in (walk.cur), the level below it (walk.nxt) and      *)
(* whether the level is the root itself (walk.top); the files a level      *)
(* holds are the copy of a.txt, the blob file under repo/.store and the    *)
(* log under repo/logs.  What the run stores and records is the subject    *)
(* of Spec; here the walk and the retry loop are followed.                 *)
(***************************************************************************)
\* the orders in which scandir may list the members of a set
Orders(S) ==
    { s \in [1 .. Cardinality(S) -> S] : \A i, j \in DOMAIN s : s[i] = s[j] => i = j }

\* the directory a file of a kind is met in, under repo
DirOf(kind) == IF kind = "blob" THEN "store" ELSE "logs"

\* for root in srcs: os.walk lists the root: a.txt and the directory repo,
\* in which backup() has made .store, snapshots and logs with the log file
NestedEnterRoot ==
    /\ pc = "root"
    /\ r <= Len(srcs)
    /\ walk' = [NoWalk EXCEPT !.listed = TRUE,
                              !.cur = [file |-> TRUE, blob |-> FALSE, log |-> TRUE],
                              !.files = <<"file">>]
    /\ pc' = "n_dir"
    /\ emitted' = <<>>
    /\ UNCHANGED <<envVars, repoVars, repo_dir, configVars, guiVars, ctx, timestamp, started, r,
                   todo, attempt, h, manifest, outVars, histVars>>

\* for name in filenames: attempt = 0; while True:
NestedBeginFile ==
    /\ pc = "n_dir"
    /\ walk.files # <<>>
    /\ attempt' = 0
    /\ tries' = 0
    /\ pc' = "n_try"
    /\ emitted' = <<>>
    /\ UNCHANGED <<envVars, repoVars, repo_dir, configVars, walk, guiVars, ctx, timestamp, started,
                   r, todo, h, manifest, outVars, runs, edits, atStart, origin, failed,
                   skipped, faults, deleted>>

\* the level below after the file of the kind was materialized at
\* files_dir / root.name / rel
Materialized(w, kind) ==
    [w EXCEPT !.nxt = [@ EXCEPT ![kind] = TRUE],
              !.cur = [@ EXCEPT !.blob = @ \/ w.top]]

\* hash, store and materialize go through: the blob is in repo/.store and
\* the copy of the file is in the level below
NestedFileOk ==
    /\ pc = "n_try"
    /\ tries' = tries + 1
    /\ walk' = [Materialized(walk, Head(walk.files)) EXCEPT !.files = Tail(@)]
    /\ pc' = "n_dir"
    /\ emitted' = <<>>
    /\ UNCHANGED <<envVars, repoVars, repo_dir, configVars, guiVars, ctx, timestamp, started, r,
                   todo, attempt, h, manifest, outVars, runs, edits, atStart, origin, failed,
                   skipped, faults, deleted>>

\* the attempt raises, before or after it made the file in the level below;
\* except Exception: attempt += 1, give the file up or sleep and retry
NestedFileRaise ==
    /\ pc = "n_try"
    /\ tries' = tries + 1
    /\ attempt' = attempt + 1
    /\ \E made \in BOOLEAN :
           LET w == IF made THEN Materialized(walk, Head(walk.files)) ELSE walk
           IN  IF Exhausted(attempt + 1, max_retries)
               THEN /\ walk' = [w EXCEPT !.files = Tail(@)]
                    /\ pc' = "n_dir"
                    /\ emitted' = << [event |-> "error", path |-> Head(walk.files),
                                      attempt |-> attempt + 1] >>
                    /\ clock' = clock
               ELSE /\ walk' = w
                    /\ pc' = "n_try"
                    /\ emitted' = << [event |-> "error", path |-> Head(walk.files),
                                      attempt |-> attempt + 1],
                                     [event |-> "sleep", seconds |-> Backoff(attempt + 1)] >>
                    /\ clock' = AfterSleep
    /\ UNCHANGED <<src, repoVars, repo_dir, configVars, guiVars, ctx, timestamp, started, r, todo,
                   h, manifest, outVars, runs, edits, atStart, origin, failed, skipped,
                   faults, deleted>>

\* the directories under repo that hold something when repo is listed
Subdirs(w) ==
    { d \in {"store", "logs", "snapshots"} :
          \/ w.top
          \/ d = "store" /\ w.cur.blob
          \/ d = "logs" /\ w.cur.log
          \/ d = "snapshots" /\ w.nxt # NoFiles }

\* the files of the level are done and os.walk goes into its directory repo,
\* which was there when the level was listed: scandir lists it, in its order
NestedEnterRepo ==
    /\ pc = "n_dir"
    /\ walk.files = <<>>
    /\ walk.at = "level"
    /\ walk.listed
    /\ \E order \in Orders(Subdirs(walk)) :
           walk' = [walk EXCEPT !.at = "sub", !.listed = FALSE, !.dirs = order]
    /\ emitted' = <<>>
    /\ UNCHANGED <<envVars, repoVars, repo_dir, configVars, guiVars, ctx, pc, timestamp, started, r,
                   todo, attempt, h, manifest, outVars, histVars>>

\* os.walk goes into repo/.store or repo/logs and lists the file there
NestedEnterSubdir ==
    /\ pc = "n_dir"
    /\ walk.files = <<>>
    /\ walk.at = "sub"
    /\ walk.dirs # <<>>
    /\ Head(walk.dirs) # "snapshots"
    /\ walk' = [walk EXCEPT !.dirs = Tail(@),
                            !.files = IF Head(walk.dirs) = "store"
                                      THEN (IF walk.cur.blob THEN <<"blob">> ELSE <<>>)
                                      ELSE (IF walk.cur.log THEN <<"log">> ELSE <<>>)]
    /\ emitted' = <<>>
    /\ UNCHANGED <<envVars, repoVars, repo_dir, configVars, guiVars, ctx, pc, timestamp, started, r,
                   todo, attempt, h, manifest, outVars, histVars>>

\* what os.walk still has to visit in repo after it comes back from
\* snapshots
Remaining(w) ==
    { kind \in {"blob", "log"} :
          /\ \E i \in 2 .. Len(w.dirs) : w.dirs[i] = DirOf(kind)
          /\ w.top \/ w.cur[kind] }

\* os.walk goes into repo/snapshots/<timestamp>/files/docs, the level below,
\* and lists it: the copy of a.txt if it was made, and the directory repo if
\* the copy of a blob or of the log was made
NestedDescend ==
    /\ pc = "n_dir"
    /\ walk.files = <<>>
    /\ walk.at = "sub"
    /\ walk.dirs # <<>>
    /\ Head(walk.dirs) = "snapshots"
    /\ walk' = [top |-> FALSE, at |-> "level",
                listed |-> walk.nxt.blob \/ walk.nxt.log,
                cur |-> walk.nxt, nxt |-> NoFiles,
                files |-> IF walk.nxt.file THEN <<"file">> ELSE <<>>,
                dirs |-> <<>>,
                later |-> walk.later \cup Remaining(walk)]
    /\ emitted' = <<>>
    /\ UNCHANGED <<envVars, repoVars, repo_dir, configVars, guiVars, ctx, pc, timestamp, started, r,
                   todo, attempt, h, manifest, outVars, histVars>>

\* the level and what is under it are done
LevelDone ==
    /\ pc = "n_dir"
    /\ walk.files = <<>>
    /\ \/ walk.at = "level" /\ ~walk.listed
       \/ walk.at = "sub" /\ walk.dirs = <<>>

\* os.walk comes back to a directory repo above and goes into what it has
\* not visited there
NestedComeBack(kind) ==
    /\ LevelDone
    /\ kind \in walk.later
    /\ walk' = [walk EXCEPT !.at = "sub", !.later = @ \ {kind}, !.files = <<kind>>]
    /\ emitted' = <<>>
    /\ UNCHANGED <<envVars, repoVars, repo_dir, configVars, guiVars, ctx, pc, timestamp, started, r,
                   todo, attempt, h, manifest, outVars, histVars>>

\* os.walk of the root is over
NestedRootDone ==
    /\ LevelDone
    /\ walk.later = {}
    /\ walk' = NoWalk
    /\ r' = r + 1
    /\ pc' = "root"
    /\ emitted' = <<>>
    /\ UNCHANGED <<envVars, repoVars, repo_dir, configVars, guiVars, ctx, timestamp, started, todo,
                   attempt, h, manifest, outVars, histVars>>

\* any integer max_retries
NestedRetries == -1 .. MaxRetries

InitNested ==
    /\ InitFor(FALSE, NestedRetries)
    /\ srcs = <<DataDocs>>
    /\ filter = [patterns |-> <<>>, mode |-> <<>>]

NextNested ==
    \/ BackupStart
    \/ NestedEnterRoot
    \/ NestedBeginFile
    \/ NestedFileOk
    \/ NestedFileRaise
    \/ NestedEnterRepo
    \/ NestedEnterSubdir
    \/ NestedDescend
    \/ \E kind \in {"blob", "log"} : NestedComeBack(kind)
    \/ NestedRootDone
    \/ ExitContext
    \/ WriteManifest

\* backup() runs on one thread and goes on as long as it has a step to take
SpecNested == InitNested /\ [][NextNested]_vars /\ WF_vars(NextNested)

(***************************************************************************)
(* BackupRestoreApp: the handlers of the buttons and the worker threads.   *)
(* A handler that returns early (an empty field, nothing selected) only    *)
(* appends to the log and changes nothing here.  What an engine call does  *)
(* inside a repository is the subject of Spec; here a call is the interval *)
(* from the start of its thread to the thread's end.                       *)
(***************************************************************************)
engineVars == <<envVars, repoVars, repo_dir, configVars, walk, ctx, pc, runVars, emitted, outVars, histVars>>

\* the sequence s without its i-th element
RemoveAt(s, i) == SubSeq(s, 1, i - 1) \o SubSeq(s, i + 1, Len(s))

\* threading.Thread(target=..., daemon=True).start()
StartThread(op, repo) == Append(threads, [op |-> op, repo |-> repo, phase |-> "started"])

\* add_source_folder: the folder picked is appended to the list
AddSourceFolder(folder) ==
    /\ app.backup_controls
    /\ Len(app.sources_list) < MaxSources
    /\ app' = [app EXCEPT !.sources_list = Append(@, folder)]
    /\ UNCHANGED <<engineVars, threads, disk>>

\* remove_selected_source: the selected row is taken out of the list
RemoveSelectedSource(row) ==
    /\ app.backup_controls
    /\ row \in 1 .. Len(app.sources_list)
    /\ app' = [app EXCEPT !.sources_list = RemoveAt(@, row)]
    /\ UNCHANGED <<engineVars, threads, disk>>

\* select_repo_folder: the folder goes into both repository fields
SelectRepoFolder(folder) ==
    /\ app.backup_controls
    /\ app' = [app EXCEPT !.repo_edit = folder, !.restore_repo_edit = folder]
    /\ UNCHANGED <<engineVars, threads, disk>>

\* start_backup: returns if there is no source or no repository; otherwise
\* disables the backup controls and starts _run_backup_thread
StartBackup ==
    /\ app.backup_controls
    /\ app.sources_list # <<>>
    /\ app.repo_edit # ""
    /\ Len(threads) < MaxThreads
    /\ disk[app.repo_edit] < MaxSnapshots
    /\ app' = [app EXCEPT !.backup_controls = FALSE]
    /\ threads' = StartThread("backup", app.repo_edit)
    /\ UNCHANGED <<engineVars, disk>>

\* _run_backup_thread, inside backup(): the snapshot directory is made
BackupThreadMkdir(i) ==
    /\ i \in 1 .. Len(threads)
    /\ threads[i].op = "backup"
    /\ threads[i].phase = "started"
    /\ disk' = [disk EXCEPT ![threads[i].repo] = @ + 1]
    /\ threads' = [threads EXCEPT ![i].phase = "scan"]
    /\ UNCHANGED <<engineVars, app>>

\* _run_backup_thread: backup() returned or raised; finally the backup
\* controls are enabled again and the thread ends
BackupThreadEnd(i) ==
    /\ i \in 1 .. Len(threads)
    /\ threads[i].op = "backup"
    /\ threads[i].phase = "scan"
    /\ threads' = RemoveAt(threads, i)
    /\ app' = [app EXCEPT !.backup_controls = TRUE]
    /\ UNCHANGED <<engineVars, disk>>

\* select_restore_repo
SelectRestoreRepo(folder) ==
    /\ app' = [app EXCEPT !.restore_repo_edit = folder]
    /\ UNCHANGED <<engineVars, threads, disk>>

\* load_snapshots: list_snapshots(repo) is called on the window's own
\* thread; both trees are cleared and the snapshots found are listed
LoadSnapshots ==
    /\ app.restore_repo_edit # ""
    /\ app' = [app EXCEPT !.snapshot_tree = disk[app.restore_repo_edit],
                          !.snapshot_selected = 0,
                          !.file_tree = FALSE, !.file_selected = FALSE]
    /\ UNCHANGED <<engineVars, threads, disk>>

\* a snapshot of the list is selected; on_snapshot_selected returns if the
\* repository field is empty, otherwise load_snapshot_files clears the file
\* tree and fills it when the snapshot has a files directory
SelectSnapshot(k) ==
    /\ k \in 1 .. app.snapshot_tree
    /\ k # app.snapshot_selected
    /\ IF app.restore_repo_edit = ""
       THEN app' = [app EXCEPT !.snapshot_selected = k]
       ELSE app' = [app EXCEPT !.snapshot_selected = k,
                              !.file_tree = (k <= disk[app.restore_repo_edit]),
                              !.file_selected = FALSE]
    /\ UNCHANGED <<engineVars, threads, disk>>

\* a file of the file tree is selected
SelectFile ==
    /\ app.file_tree
    /\ ~app.file_selected
    /\ app' = [app EXCEPT !.file_selected = TRUE]
    /\ UNCHANGED <<engineVars, threads, disk>>

\* select_restore_target
SelectRestoreTarget(folder) ==
    /\ app.restore_target_edit # folder
    /\ app' = [app EXCEPT !.restore_target_edit = folder]
    /\ UNCHANGED <<engineVars, threads, disk>>

\* start_restore_full: returns if the repository, the snapshot or the target
\* is missing; otherwise starts _run_restore_full_thread
StartRestoreFull ==
    /\ app.restore_repo_edit # ""
    /\ app.snapshot_selected # 0
    /\ app.restore_target_edit # ""
    /\ Len(threads) < MaxThreads
    /\ threads' = StartThread("restore_full", app.restore_repo_edit)
    /\ UNCHANGED <<engineVars, app, disk>>

\* start_restore_file: as start_restore_full, and returns if no file is
\* selected; otherwise starts _run_restore_file_thread
StartRestoreFile ==
    /\ app.restore_repo_edit # ""
    /\ app.snapshot_selected # 0
    /\ app.restore_target_edit # ""
    /\ app.file_selected
    /\ Len(threads) < MaxThreads
    /\ threads' = StartThread("restore_file", app.restore_repo_edit)
    /\ UNCHANGED <<engineVars, app, disk>>

\* _run_restore_full_thread, _run_restore_file_thread: the engine call
\* returned or raised and the thread ends
RestoreThreadEnd(i) ==
    /\ i \in 1 .. Len(threads)
    /\ threads[i].op \in {"restore_full", "restore_file"}
    /\ threads' = RemoveAt(threads, i)
    /\ UNCHANGED <<engineVars, app, disk>>

\* the folders a dialog can return
SourceFolders == {DataDocs}
TargetFolders == {"out"}

\* the window just opened; the engine of this process is idle
InitGui ==
    /\ InitWith(FALSE)
    /\ srcs = <<DataDocs>>
    /\ filter = [patterns |-> <<>>, mode |-> <<>>]
    /\ max_retries = MaxRetries

NextGui ==
    \/ \E folder \in SourceFolders : AddSourceFolder(folder)
    \/ \E row \in 1 .. MaxSources : RemoveSelectedSource(row)
    \/ \E folder \in Repos : SelectRepoFolder(folder)
    \/ StartBackup
    \/ \E i \in 1 .. MaxThreads : BackupThreadMkdir(i)
    \/ \E i \in 1 .. MaxThreads : BackupThreadEnd(i)
    \/ \E folder \in Repos : SelectRestoreRepo(folder)
    \/ LoadSnapshots
    \/ \E k \in 1 .. MaxSnapshots : SelectSnapshot(k)
    \/ SelectFile
    \/ \E folder \in TargetFolders : SelectRestoreTarget(folder)
    \/ StartRestoreFull
    \/ StartRestoreFile
    \/ \E i \in 1 .. MaxThreads : RestoreThreadEnd(i)

SpecGui == InitGui /\ [][NextGui]_vars

(***************************************************************************)
(* Definitions shared by the properties.                                   *)
(***************************************************************************)
\* no operation is running and at least one backup run has finished
RunFinished == runs >= 1 /\ pc \in {"idle", "returned"}

\* the entries of the manifest.json of a snapshot
Entries(id) == snaps[id].manifest.entries

\* the snapshots whose manifest.json has been written
WrittenSnapshots == { id \in DOMAIN snaps : snaps[id].manifest.written }

\* the blob files of the store whose file name is hh
BlobFiles(hh) == { b \in DOMAIN store : b[2] = hh }

\* the hashes a blob_copy or blob_reuse event has just reported, and the
\* hashes the manifests (in memory and written) carry
StoredHashes ==
    { emitted[k].hash : k \in { j \in 1 .. Len(emitted) :
                                  emitted[j].event \in {"blob_copy", "blob_reuse"} } }
    \cup { manifest[k].hash : k \in 1 .. Len(manifest) }
    \cup UNION { { Entries(id)[k].hash : k \in 1 .. Len(Entries(id)) } : id \in WrittenSnapshots }

\* the source was not rewritten since the last run started
SourceStable == runs >= 1 /\ atStart[runs].edits = edits

\* no file operation raised since the last run started
RunClean == runs >= 1 /\ atStart[runs].faults = faults

(***************************************************************************)
(* C1: every hash that has been stored has exactly one blob file in the    *)
(* store, at .store/<first two hex digits>/<hash>, however many logical    *)
(* paths and snapshots carry that hash; and no blob name occurs twice.     *)
(***************************************************************************)
C1_OneBlobPerHash ==
    /\ \A hh \in StoredHashes : BlobFiles(hh) = { << <<hh[1], hh[2]>>, hh >> }
    /\ \A b \in DOMAIN store : Cardinality(BlobFiles(b[2])) = 1

\* two snapshots carry the same hash, one of them under two logical paths,
\* and the store holds one blob for it
C1_Witness ==
    \E id1 \in WrittenSnapshots, id2 \in WrittenSnapshots :
        /\ id1 # id2
        /\ \E i \in 1 .. Len(Entries(id1)), j \in 1 .. Len(Entries(id1)),
              k \in 1 .. Len(Entries(id2)) :
               /\ Entries(id1)[i].path # Entries(id1)[j].path
               /\ Entries(id1)[i].hash = Entries(id1)[j].hash
               /\ Entries(id2)[k].hash = Entries(id1)[i].hash
               /\ Cardinality(BlobFiles(Entries(id1)[i].hash)) = 1

(***************************************************************************)
(* C2: whenever no run is in progress (so after every retry), each blob    *)
(* file of the store holds content that hashes to the blob's name (looked  *)
(* at for the configurations with max_retries >= 1).                       *)
(***************************************************************************)
C2_BlobContentMatchesName ==
    (pc = "idle" /\ max_retries >= 1) =>
        \A b \in DOMAIN store : sha256_file(store[b]) = b[2]

(***************************************************************************)
(* C3: after a backup run and a full restore of its snapshot into an empty *)
(* target, every source file that got its manifest entry (it passed the    *)
(* filter and was processed without error) is in the target at its logical *)
(* path <root name>/<relative path>, with the bytes of the source file     *)
(* (the source was not rewritten since the run started, and no file        *)
(* operation of the run raised).                                           *)
(***************************************************************************)
RestoredLastRun ==
    /\ pc = "returned"
    /\ runs >= 1
    /\ result.op = "restore"
    /\ result.status = "ok"
    /\ result.snapshot = timestamp

C3_RestoreRoundTrip ==
    (RestoredLastRun /\ SourceStable /\ RunClean) =>
        \A k \in 1 .. Len(origin) :
            /\ manifest[k].path \in DOMAIN target
            /\ target[manifest[k].path] = src[origin[k]]

(***************************************************************************)
(* C10: restore_single_file of a relative path that is a regular file of   *)
(* the snapshot leaves exactly one file in the target, named by the base   *)
(* name of the path, whose content hashes to the hash of the manifest      *)
(* entry of that logical path.                                             *)
(***************************************************************************)
RestoredSingleFile ==
    /\ pc = "returned"
    /\ result.op = "restore_file"
    /\ result.status = "ok"

C10_SingleFileRestore ==
    RestoredSingleFile =>
        /\ DOMAIN target = { << Last(result.rel) >> }
        /\ \A k \in 1 .. Len(Entries(result.snapshot)) :
               Entries(result.snapshot)[k].path = result.rel =>
                   sha256_file(target[<< Last(result.rel) >>]) = Entries(result.snapshot)[k].hash


(***************************************************************************)
(* C4: a second backup of unchanged sources, verified as 'latest'.         *)
(***************************************************************************)
\* the files the walks of the configured roots enumerate, and those among
\* them the filter lets through
RootFiles == UNION { Range(Walk(srcs[i])) : i \in 1 .. Len(srcs) }
Passing == { f \in RootFiles : should_process(f, filter.patterns, filter.mode) }

\* the logical path of an enumerated file
LogicalPathOf(f) ==
    LogicalPath(srcs[CHOOSE i \in 1 .. Len(srcs) : f \in Range(Walk(srcs[i]))], f)

\* a second run over sources nobody rewrote since the first run started has
\* finished, and verify of its snapshot has returned
VerifiedSecondRun ==
    /\ pc = "returned"
    /\ runs >= 2
    /\ atStart[1].edits = edits
    /\ result.op = "verify"
    /\ result.status = "ok"
    /\ result.snapshot = timestamp

\* the manifest of the last run carries exactly the files of S, each once,
\* with its logical path and the hash of its content, and verify counted them
CarriesExactly(S) ==
    /\ resolve_snapshot(snaps, LATEST) = [ok |-> TRUE, snap |-> timestamp]
    /\ Entries(timestamp) = manifest
    /\ Len(manifest) = Len(origin)
    /\ Len(origin) = Cardinality(S)
    /\ Range(origin) = S
    /\ \A k \in 1 .. Len(origin) :
           /\ manifest[k].path = LogicalPathOf(origin[k])
           /\ manifest[k].hash = sha256_file(src[origin[k]])
    /\ result.ok = Cardinality(S)
    /\ result.missing = 0

VerifiedAfterDelete ==
    /\ pc = "returned"
    /\ result.op = "verify"
    /\ result.status = "ok"
    /\ deleted # {}

\* the entries of the verified snapshot whose blob file is one of the set B
EntriesWithBlobIn(B) ==
    { k \in 1 .. Len(Entries(result.snapshot)) :
        << Take(Entries(result.snapshot)[k].hash, 2), Entries(result.snapshot)[k].hash >> \in B }

\* what verify counted before the deletion: the store then held the blob
\* files it holds now and the deleted ones
OkBefore == Cardinality(EntriesWithBlobIn(DOMAIN store \cup deleted))
MissingBefore == Len(Entries(result.snapshot)) - OkBefore

\* C5 as stated: when one blob file that an entry of the snapshot references
\* is deleted, verify reports ok decreased by exactly one and missing
\* increased by one.
C5_OkDecreasesByOne ==
    (/\ VerifiedAfterDelete
     /\ max_retries >= 1
     /\ Cardinality(deleted) = 1
     /\ EntriesWithBlobIn(deleted) # {}) =>
        /\ result.ok = OkBefore - 1
        /\ result.missing = MissingBefore + 1

\* C5, amended: when blob files are deleted, verify reports under missing
\* exactly the entries of the snapshot that reference a deleted blob (several
\* entries share a blob when their files have the same content): ok decreases
\* and missing increases by the number of these entries, and every other
\* entry is counted as before.
C5_OkDecreasesByReferences ==
    VerifiedAfterDelete =>
        /\ result.ok = OkBefore - Cardinality(EntriesWithBlobIn(deleted))
        /\ result.missing = MissingBefore + Cardinality(EntriesWithBlobIn(deleted))
        /\ result.ok = Cardinality(EntriesWithBlobIn(DOMAIN store))

C5_Witness ==
    /\ VerifiedAfterDelete
    /\ EntriesWithBlobIn(deleted) # {}
    /\ result.missing >= 1
    /\ result.ok >= 1

(***************************************************************************)
(* C6, C7: retries and per-file failures.                                  *)
(***************************************************************************)
\* the retry loop has just given the current file up: the final error event
\* is the only thing the step emitted
GivenUp ==
    /\ pc = "file"
    /\ Len(emitted) = 1
    /\ emitted[1].event = "error"

\* C6: with max_retries >= 1 (the configuration's contract), a file whose
\* processing raised on every attempt is given up after exactly max_retries
\* attempts, the last error event carrying that attempt number, and no file
\* that was given up has an entry in the manifest of the run, in memory or
\* as written.
C6_RetryExhaustion ==
    max_retries >= 1 =>
        /\ GivenUp => /\ emitted[1].path \in failed
                      /\ tries = max_retries
                      /\ emitted[1].attempt = max_retries
        /\ \A k \in 1 .. Len(origin) : origin[k] \notin failed
        /\ Len(manifest) = Len(origin)
        /\ RunFinished => Entries(timestamp) = manifest

C6_Witness ==
    /\ GivenUp
    /\ max_retries = 2
    /\ tries = 2
    /\ origin # <<>>

\* the files a run still has to visit
Pending ==
    LET later == UNION { Range(Walk(srcs[i])) :
                           i \in (IF pc = "root" THEN r ELSE r + 1) .. Len(srcs) }
    IN  IF pc \in {"file", "hash", "store", "link"} THEN Range(todo) \cup later
        ELSE IF pc = "root" THEN later
        ELSE {}

\* C7: whatever raises for single files, a run loses no file: at every moment
\* each enumerated file is skipped by the filter, given up, processed or still
\* to be visited; and when the run is over nothing is left to visit, the
\* manifest.json of the snapshot holds an entry for each processed file, and
\* the done event with their count was emitted.
C7_FailureNeverAborts ==
    runs >= 1 =>
        /\ RootFiles = skipped \cup failed \cup Range(origin) \cup Pending
        /\ Pending \cap (skipped \cup failed \cup Range(origin)) = {}
        /\ RunFinished =>
               /\ Pending = {}
               /\ snaps[timestamp].manifest = Written(manifest)
               /\ Len(manifest) = Len(origin)
               /\ Range(origin) = Passing \ failed
               /\ emitted = << [event |-> "done", snapshot |-> timestamp,
                                entry_count |-> Len(origin)] >>

C7_Witness ==
    /\ RunFinished
    /\ Len(srcs) = 2
    /\ failed # {}
    /\ failed \subseteq Range(Walk(srcs[1]))
    /\ Range(Walk(srcs[2])) \subseteq Range(origin)
    /\ emitted[1].event = "done"

(***************************************************************************)
(* C8: the filter decision.                                                *)
(***************************************************************************)
\* some pattern matches the base name of f or its full path
MatchesSomePattern(f) ==
    \E k \in 1 .. Len(filter.patterns) :
        \/ fnmatch(Chars(Last(f)), Strip(filter.patterns[k]))
        \/ fnmatch(Str(f), Strip(filter.patterns[k]))

\* the decision the mode asks for: Include takes the matching files, Exclude
\* (also the mode of a filter that names none) the others
ToProcess(f) ==
    IF Lower(Strip(filter.mode)) = INCLUDE THEN MatchesSomePattern(f)
    ELSE Lower(Strip(filter.mode)) \in {EXCLUDE, <<>>} /\ ~MatchesSomePattern(f)

\* the files a run has let through the filter
Entered ==
    failed \cup Range(origin)
           \cup (IF pc \in {"hash", "store", "link"} THEN {CurFile} ELSE {})

TmpFiles == { f \in SourceFiles : Last(f) = "a.tmp" }

\* C8: a run skips exactly the files the filter decision rejects and
\* processes exactly those it accepts, a file matching when some pattern
\* matches its base name or its full path; with the patterns ["*.tmp"], mode
\* Exclude processes a.txt and not a.tmp, and mode Include the opposite.
C8_FilterDecision ==
    /\ \A f \in skipped : ~ToProcess(f)
    /\ \A f \in Entered : ToProcess(f)
    /\ filter = [patterns |-> <<StarTmp>>, mode |-> EXCLUDE] =>
           (skipped \subseteq TmpFiles /\ Entered \cap TmpFiles = {})
    /\ filter = [patterns |-> <<StarTmp>>, mode |-> INCLUDE] =>
           (Entered \subseteq TmpFiles /\ skipped \cap TmpFiles = {})

C8_Witness ==
    /\ RunFinished
    /\ filter.patterns = <<StarTmp>>
    /\ filter.mode = INCLUDE
    /\ skipped = { <<"data", "docs", "a.txt">> }
    /\ Range(origin) = { <<"data", "docs", "a.tmp">> }

(***************************************************************************)
(* C9: the store step.                                                     *)
(***************************************************************************)
\* the store step of the current file returns
StoreStep == pc = "store" /\ pc' = "link"

\* C9: a store step that finds the blob of the hash in the store leaves the
\* store as it is and emits blob_reuse; one that does not find it copies the
\* source bytes to the blob path and emits blob_copy; and no step of the
\* engine changes or removes a blob file the store holds.
C9_StoreIdempotent ==
    [][ /\ StoreStep =>
            IF \E b \in DOMAIN store : b[2] = h
            THEN /\ store' = store
                 /\ emitted' = << [event |-> "blob_reuse", path |-> CurFile, hash |-> h] >>
            ELSE /\ store' = Put(store, << Take(h, 2), h >>, src[CurFile])
                 /\ emitted' = << [event |-> "blob_copy", path |-> CurFile, hash |-> h] >>
        /\ \A b \in DOMAIN store : b \in DOMAIN store' /\ store'[b] = store[b]
      ]_vars

C9_Witness ==
    /\ pc = "link"
    /\ runs = 2
    /\ Len(emitted) = 1
    /\ emitted[1].event = "blob_reuse"
    /\ sha256_file(src[CurFile]) = h

(***************************************************************************)
(* C11, C12: snapshots once written, and the paths of a manifest.          *)
(***************************************************************************)
\* C11: once the manifest.json of a snapshot is written, no step of the
\* engine changes the manifest or the files/ tree of that snapshot (looked at
\* for the steps before which and in which no file operation raised).
C11_SnapshotNeverMutated ==
    [][ (faults = 0 /\ faults' = 0) =>
            \A id \in WrittenSnapshots :
                /\ id \in DOMAIN snaps'
                /\ snaps'[id] = snaps[id]
      ]_vars

\* C12: in every manifest.json written by backup no two entries have the
\* same logical path (looked at for the histories without a raised file
\* operation).
C12_UniqueLogicalPaths ==
    faults = 0 =>
        \A id \in WrittenSnapshots :
            \A i \in 1 .. Len(Entries(id)), j \in 1 .. Len(Entries(id)) :
                Entries(id)[i].path = Entries(id)[j].path => i = j

(***************************************************************************)
(* C13: restore and verify leave the repository alone.                     *)
(***************************************************************************)
\* a restore or a verify returns or raises
OperationStep == pc' \in {"returned", "observed"} /\ result'.op # "backup"

\* C13: a step of restore_full_snapshot, restore_single_file or verify,
\* returning or raising, leaves the store, every snapshot's files/ tree and
\* manifest, and the logs as they were.
C13_RestoreVerifyReadOnly ==
    [][ OperationStep =>
            /\ store' = store
            /\ snaps' = snaps
            /\ emitted' = emitted
      ]_vars

C13_Witness ==
    /\ pc = "returned"
    /\ result.op = "restore"
    /\ result.status = "ok"
    /\ target # EmptyTree
    /\ target = snaps[result.snapshot].files

(***************************************************************************)
(* C14: what 'latest' names.                                               *)
(***************************************************************************)
\* a comes before b in the order of strings
LexLess(a, b) ==
    \/ Len(a) < Len(b) /\ \A j \in 1 .. Len(a) : a[j] = b[j]
    \/ \E i \in 1 .. Len(a) :
           /\ i <= Len(b)
           /\ \A j \in 1 .. i - 1 : a[j] = b[j]
           /\ DigitValue(a[i]) < DigitValue(b[i])

\* C14: 'latest' resolves to the snapshot identifier that comes last in the
\* order of strings, which is the snapshot of the run started last (the
\* clock never going back); with no snapshot in the repository resolving
\* 'latest' raises.
C14_LatestResolution ==
    /\ DOMAIN snaps = {} => ~resolve_snapshot(snaps, LATEST).ok
    /\ DOMAIN snaps # {} =>
           /\ resolve_snapshot(snaps, LATEST).ok
           /\ \A id \in DOMAIN snaps \ {resolve_snapshot(snaps, LATEST).snap} :
                  LexLess(id, resolve_snapshot(snaps, LATEST).snap)
    /\ runs >= 1 =>
           /\ \A k \in 1 .. runs : Timestamp(atStart[k].clock) \in DOMAIN snaps
           /\ resolve_snapshot(snaps, LATEST) =
                  [ok |-> TRUE, snap |-> Timestamp(atStart[runs].clock)]
           /\ timestamp = Timestamp(atStart[runs].clock)

C14_Witness ==
    /\ pc = "idle"
    /\ runs = 2
    /\ atStart[2].clock > atStart[1].clock
    /\ Cardinality(DOMAIN snaps) = 2
    /\ resolve_snapshot(snaps, LATEST).snap = timestamp

(***************************************************************************)
(* C20: a file the filter rejects.                                         *)
(***************************************************************************)
\* the run passes over the file it is visiting because the filter rejects it
SkipStep == pc = "file" /\ todo # <<>> /\ ~ToProcess(CurFile) /\ todo' # todo

\* C20: the step that passes over a file rejected by the filter emits one
\* skip_by_filter event for it and nothing else: no hash is computed, no
\* attempt is begun, the store, the files/ trees and the manifest (in memory
\* and written) stay as they are; and a rejected file never has an entry in
\* the manifest of the run.
C20_SkipHasNoEffect ==
    /\ [][ SkipStep =>
               /\ emitted' = << [event |-> "skip_by_filter", path |-> CurFile] >>
               /\ h' = h /\ h = NoHash
               /\ tries' = tries
               /\ attempt' = attempt
               /\ store' = store
               /\ snaps' = snaps
               /\ manifest' = manifest
               /\ todo' = Tail(todo)
         ]_vars
    /\ [](\A k \in 1 .. Len(origin) : origin[k] \notin skipped)

C20_Witness ==
    /\ RunFinished
    /\ skipped # {}
    /\ origin # <<>>
    /\ \E f \in skipped : LogicalPathOf(f) \notin DOMAIN snaps[timestamp].files

(***************************************************************************)
(* C17: a configured source root that is not there.                        *)
(***************************************************************************)
\* the run is at a configured root that does not exist: the step it takes
MissingRootStep == pc = "root" /\ r <= Len(srcs) /\ srcs[r] = OldDocs

\* C17: coming to a configured root that does not exist, the run emits one
\* source_missing event for it and goes on to the next root, adding no entry
\* and touching neither store nor snapshots; the run then still visits every
\* file of the other roots and writes the manifest with the processed ones.
C17_SourceMissing ==
    /\ [][ MissingRootStep =>
               /\ emitted' = << [event |-> "source_missing", path |-> OldDocs] >>
               /\ r' = r + 1
               /\ pc' = "root"
               /\ manifest' = manifest
               /\ origin' = origin
               /\ store' = store
               /\ snaps' = snaps
         ]_vars
    /\ []((RunFinished /\ \E i \in 1 .. Len(srcs) : srcs[i] = OldDocs) =>
              /\ \A i \in 1 .. Len(srcs) :
                     Range(Walk(srcs[i])) \subseteq skipped \cup failed \cup Range(origin)
              /\ \A k \in 1 .. Len(origin) : ~IsPrefix(OldDocs, origin[k])
              /\ \A k \in 1 .. Len(manifest) : manifest[k].path = LogicalPathOf(origin[k])
              /\ snaps[timestamp].manifest = Written(manifest)
              /\ Len(manifest) = Len(origin))

C17_Witness ==
    /\ RunFinished
    /\ srcs = <<OldDocs, MntDocs>>
    /\ Range(origin) = { <<"mnt", "docs", "a.txt">> }
    /\ snaps[timestamp].manifest.written
    /\ Len(snaps[timestamp].manifest.entries) = 1

(***************************************************************************)
(* C18: errors in resolving what an operation names.                       *)
(***************************************************************************)
\* a restore or a verify has returned or raised
OperationDone == pc \in {"returned", "observed"} /\ result.op # "backup"

\* C18: a restore or verify that raises leaves the store and the snapshots
\* as they were and creates nothing in the target (a restore that raises
\* never comes to make the target directory); an operation returns normally
\* only for a snapshot that exists, verify only for one with manifest.json
\* and the single-file restore only for a regular file under files/; and
\* each error raised names what was not found: a snapshot, the manifest,
\* the file.
C18_ResolutionErrors ==
    /\ [][ (OperationStep /\ result'.status = "raised") =>
               /\ store' = store
               /\ snaps' = snaps
               /\ emitted' = emitted
               /\ target' = EmptyTree
               /\ result'.op # "verify" => ~result'.mkdir
         ]_vars
    /\ []((OperationDone /\ result.status = "ok") =>
              /\ result.snapshot \in DOMAIN snaps
              /\ result.op = "verify" => snaps[result.snapshot].manifest.written
              /\ result.op = "restore_file" =>
                     result.rel \in DOMAIN snaps[result.snapshot].files)
    /\ []((OperationDone /\ result.status = "raised") =>
              /\ target = EmptyTree
              /\ result.error = "Snapshot bulunamadi." => DOMAIN snaps = {}
              /\ result.error = "Snapshot bulunamadi: id" =>
                     \E id \in SnapshotArgs : id # LATEST /\ id \notin DOMAIN snaps
              /\ result.error = "Manifest yok." =>
                     /\ result.op = "verify"
                     /\ \E id \in DOMAIN snaps : ~snaps[id].manifest.written
              /\ result.error = "Dosya bulunamadi" =>
                     /\ result.op = "restore_file"
                     /\ \E id \in DOMAIN snaps, rel \in RelArgs :
                            rel \notin DOMAIN snaps[id].files)

C18_Witness ==
    /\ pc = "observed"
    /\ result.op = "verify"
    /\ result.status = "raised"
    /\ result.error = "Manifest yok."
    /\ store # EmptyTree

(***************************************************************************)
(* C15                                                                     *)
(***************************************************************************)
\* a step in which __exit__ of the context is called
ReleaseStep == Leaving /\ ctx'.state \in {"exited", "exit_raised"}

\* C15: a context that became active is left only by its __exit__, which is
\* called when the scan is over or when an exception left the scan; it has
\* been called before the manifest write is reached and by the time backup()
\* is left, and the manifest is written by no step taken while the context is
\* active; a call of __exit__ in which nothing raised has run the cleanup
\* script and removed the scratch directory
C15_GuaranteedRelease ==
    /\ [][ (ctx.state = "active" /\ ctx'.state # "active") => ReleaseStep ]_vars
    /\ [][ ctx.state = "active" =>
              \A id \in DOMAIN snaps' :
                  id \in DOMAIN snaps /\ snaps'[id].manifest = snaps[id].manifest ]_vars
    /\ [](pc \in {"write", "idle"} => ctx.state # "active")
    /\ [](pc = "unwind" => ctx.state # "exited")
    /\ [](ctx.state = "exited" => ~ctx.tmpdir)

\* the scan raised under an active context, the release ran, and backup() was
\* left without a manifest
C15_Witness ==
    /\ pc = "idle"
    /\ ctx.state = "exited"
    /\ ~ctx.shadow
    /\ timestamp \in DOMAIN snaps
    /\ ~snaps[timestamp].manifest.written

(***************************************************************************)
(* C16                                                                     *)
(***************************************************************************)
\* C16: whatever step of the entry fails, the context is left disabled and
\* the backup goes on to the scan of the live sources; the entry never ends
\* the backup
C16_EntryNeverAborts ==
    [][ (pc = "enter" /\ max_retries >= 1 /\ ctx' # ctx) =>
            /\ pc' = "root"
            /\ ctx'.state \in {"disabled", "active"}
            /\ ctx'.state = "disabled" => \A f \in DOMAIN src : Source(f)' = src'[f] ]_vars

(***************************************************************************)
(* C19                                                                     *)
(***************************************************************************)
\* the worker threads inside an engine call on a repository
WorkersOn(repo) == { i \in 1 .. Len(threads) : threads[i].repo = repo }

\* C19: whatever buttons are pressed, at most one backup or restore worker
\* thread is inside an engine call on a repository at any time
C19_OneWorkerPerRepository == \A repo \in Repos : Cardinality(WorkersOn(repo)) <= 1

(***************************************************************************)
(* C21                                                                     *)
(***************************************************************************)
\* backup() has started and has not returned or raised
InProgress == pc \notin {"idle", "returned"}

\* the manifest.json files of the repository
ManifestFiles == [id \in WrittenSnapshots |-> snaps[id].manifest]

\* C21: manifest.json is written by one step of a run only, the one after
\* the walk of the last source root, and into the snapshot of the run; as
\* long as the run is in progress its snapshot directory exists and holds no
\* manifest.json
C21_ManifestWrittenOnceAtEnd ==
    /\ [][ ManifestFiles' # ManifestFiles =>
              /\ pc = "write" /\ r > Len(srcs) /\ pc' = "idle"
              /\ \A id \in DOMAIN ManifestFiles' :
                     id # timestamp => id \in DOMAIN ManifestFiles
                                       /\ ManifestFiles'[id] = ManifestFiles[id] ]_vars
    /\ []( (InProgress /\ max_retries >= 1 /\ faults = 0) =>
               timestamp \in DOMAIN snaps /\ ~snaps[timestamp].manifest.written )

(***************************************************************************)
(* C22                                                                     *)
(***************************************************************************)
\* the smaller of two numbers
Min(a, b) == IF a <= b THEN a ELSE b

\* the error events of a step
ErrorEvents(events) == { i \in 1 .. Len(events) : events[i].event = "error" }

\* the sleeps of a step
Sleeps(events) == { i \in 1 .. Len(events) : events[i].event = "sleep" }

\* a step in which an attempt on the current file fails
FailedAttempt == pc \in {"hash", "store", "link"} /\ faults' = faults + 1

\* C22: the k-th failed attempt on a file emits one error event, for that
\* file and with attempt = k; if k < max_retries the engine then sleeps
\* min(5 * k, 30) and goes to the next attempt on the file; otherwise it does
\* not sleep and goes on with the next file; no other step logs an error or
\* sleeps
C22_BackoffAndNumbering ==
    [][ IF FailedAttempt
        THEN /\ emitted'[1] = [event |-> "error", path |-> CurFile, attempt |-> tries']
             /\ IF tries' < max_retries
                THEN /\ Len(emitted') = 2
                     /\ emitted'[2] = [event |-> "sleep", seconds |-> Min(5 * tries', 30)]
                     /\ pc' = "hash" /\ todo' = todo
                ELSE /\ Len(emitted') = 1
                     /\ pc' = "file" /\ todo' = Tail(todo)
        ELSE ErrorEvents(emitted') = {} /\ Sleeps(emitted') = {} ]_vars

\* the seventh attempt on a file failed and the engine sleeps the capped time
C22_Witness ==
    /\ pc = "hash"
    /\ tries = 7
    /\ Len(emitted) = 2
    /\ emitted[2] = [event |-> "sleep", seconds |-> 30]

(***************************************************************************)
(* C23                                                                     *)
(***************************************************************************)
\* the entries of a manifest that carry a hash and whose blob file is, or is
\* not, among the files of the store
RECURSIVE CountHashed(_, _, _)
CountHashed(entries, files, present) ==
    IF entries = <<>> THEN 0
    ELSE CountHashed(Tail(entries), files, present)
         + (IF /\ Head(entries).hash # <<>>
               /\ (<< SubSeq(Head(entries).hash, 1, 2), Head(entries).hash >> \in files) = present
            THEN 1 ELSE 0)

\* verify has returned its counts
Verified == pc = "returned" /\ result.op = "verify" /\ result.status = "ok"

\* C23: ok is the number of entries with a hash whose blob file exists,
\* missing the number of entries with a hash whose blob file does not; an
\* entry without a hash is in neither count, and what a blob file holds does
\* not matter
C23_VerifyCountsByPresence ==
    Verified =>
        /\ result.ok = CountHashed(Entries(result.snapshot), DOMAIN store, TRUE)
        /\ result.missing = CountHashed(Entries(result.snapshot), DOMAIN store, FALSE)
        /\ \A st \in StoreChoices :
               DOMAIN st = DOMAIN store =>
                   VerifyCounts(Entries(result.snapshot), st)
                       = [ok |-> result.ok, missing |-> result.missing]

\* verify of a manifest with an entry without a hash and an entry whose blob
\* holds other bytes than its name says: the first is not counted, the second
\* is counted as ok
C23_Witness ==
    /\ Verified
    /\ \E k \in 1 .. Len(Entries(result.snapshot)) : Entries(result.snapshot)[k].hash = NoHash
    /\ \E k \in 1 .. Len(Entries(result.snapshot)) :
           /\ Entries(result.snapshot)[k].hash # NoHash
           /\ BlobPath(Entries(result.snapshot)[k].hash) \in DOMAIN store
           /\ sha256_file(store[BlobPath(Entries(result.snapshot)[k].hash)])
                  # Entries(result.snapshot)[k].hash
    /\ result.ok = 1
    /\ result.missing = 0

(***************************************************************************)
(* C24                                                                     *)
(***************************************************************************)
\* backup() is called
BackupCalled ==
    /\ pc = "idle"
    /\ (pc' = "returned" /\ result'.op = "backup") \/ runs' = runs + 1

\* C24: backup called with no source root raises, and nothing is made: the
\* repository path holds no directory (repo, snapshots, logs, .store, files),
\* no log file, no snapshot and no manifest, neither after the call nor ever
\* with this configuration
C24_EmptySourcesLeaveNoTrace ==
    /\ [][ (BackupCalled /\ srcs = <<>>) =>
              /\ result'.status = "raised"
              /\ runs' = runs
              /\ repo_dir' = NoRepo /\ store' = EmptyTree /\ snaps' = EmptyTree
              /\ emitted' = emitted ]_vars
    /\ [](srcs = <<>> => repo_dir = NoRepo /\ store = EmptyTree /\ snaps = EmptyTree)

\* backup was called with an empty source list and raised
C24_Witness ==
    /\ pc = "returned"
    /\ result.op = "backup"
    /\ result.status = "raised"
    /\ srcs = <<>>
    /\ repo_dir = NoRepo

(***************************************************************************)
(* C25                                                                     *)
(***************************************************************************)
\* backup() has returned after writing the manifest, and nothing raised
BackupReturned ==
    /\ pc = "idle"
    /\ runs >= 1
    /\ max_retries >= 1
    /\ faults = atStart[runs].faults
    /\ timestamp \in WrittenSnapshots

\* C25: when backup returns, nothing the shadow-copy context created is left:
\* the scratch directory is gone after a release and also after an entry
\* that ended disabled, and a disabled context has left no shadow copy or
\* exposed drive
C25_NothingLeftOnReturn ==
    BackupReturned =>
        /\ ctx.state \in {"exited", "disabled"} => ~ctx.tmpdir
        /\ ctx.state = "disabled" => ~ctx.shadow

(***************************************************************************)
(* C26                                                                     *)
(***************************************************************************)
\* the logical paths the entries of a written manifest name
EntryPaths(id) == { Entries(id)[k].path : k \in 1 .. Len(Entries(id)) }

\* C26: for every snapshot with a written manifest, every entry has its file
\* in files/ at the logical path, the blob of the entry's hash is in the
\* store and the file holds the blob's bytes, and files/ holds no file that
\* no entry names (looked at for the histories in which no file operation
\* raised; no blob is deleted in this specification)
C26_ManifestAgreesWithFiles ==
    (faults = 0 /\ max_retries >= 1) =>
        \A id \in WrittenSnapshots :
            /\ \A k \in 1 .. Len(Entries(id)) :
                   /\ Entries(id)[k].path \in DOMAIN snaps[id].files
                   /\ BlobPath(Entries(id)[k].hash) \in DOMAIN store
                   /\ snaps[id].files[Entries(id)[k].path]
                          = store[BlobPath(Entries(id)[k].hash)]
            /\ (pc = "idle" => DOMAIN snaps[id].files = EntryPaths(id))

(***************************************************************************)
(* C27                                                                     *)
(***************************************************************************)
\* max(1, max_retries)
AttemptsAllowed == IF max_retries > 1 THEN max_retries ELSE 1

\* the run is in its scan
Scanning == pc \in {"root", "n_dir", "n_try"}

====
